---- MODULE Spec2Model ----
(***************************************************************************)
(* The day-by-day portfolio simulator (Backtest.run_backtest) together     *)
(* with the momentum scoring of FactorModel and the selection of the top   *)
(* instruments.                                                            *)
(*                                                                         *)
(* Units.  A close is held in fen (0.01 yuan) per share, so that one lot   *)
(* of 100 shares costs `close' yuan.  Money (cash, values, commissions)    *)
(* is held in 1/Scale yuan; a price after slippage is held in 1/Scale fen  *)
(* per share.  The code computes in binary floating point; the model      *)
(* computes the same expressions in this fixed point, where every product  *)
(* shares * price is exact and a product with a commission rate or a       *)
(* division by the number of targets is truncated to 1/Scale yuan.         *)
(***************************************************************************)
EXTENDS Integers, Sequences, FiniteSets, TLC

VARIABLES stock_data, rebalance_period, top_n, bt, bt2, final_scores, n, selected,
          costs, fm, metrics, reports, test_data, test_data2, db

vars == <<stock_data, rebalance_period, top_n, bt, bt2, final_scores, n, selected,
          costs, fm, metrics, reports, test_data, test_data2, db>>

(***************************************************************************)
(* Program constants                                                       *)
(***************************************************************************)
Scale == 10000
InitialCash == 50000
commission_rate_buy == 1
commission_rate_sell == 3
min_commission == 5
slippage == 2
LotSize == 100
MomentumPeriod == 20
MinWeight == 0
MaxWeight == 10

(***************************************************************************)
(* Bounds of the inputs                                                    *)
(***************************************************************************)
NDays == 3
MaxPeriod == 2
MaxTopN == 2
PreBars == 19
PreClose == 1000
MaxK == 4
MaxCalls == 2

\* The instrument universe in the iteration order of the stock_data mapping.
Codes == <<"A", "B", "C">>
CodeSet == {Codes[k] : k \in 1..Len(Codes)}
Days == 0..(NDays - 1)
Closes == {1000, 1200}
CrashCloses == {49985, 1}

\* A bar of one instrument on one date: <<>> when the date has no row,
\* <<close>> when it has one.
Bars(closes) == {<<>>} \cup {<<c>> : c \in closes}

Range(s) == {s[k] : k \in 1..Len(s)}

RECURSIVE SumSeq(_)
SumSeq(s) == IF s = <<>> THEN 0 ELSE Head(s) + SumSeq(Tail(s))

Reverse(s) == [k \in 1..Len(s) |-> s[Len(s) + 1 - k]]

\* int(x / y) of Python for y > 0: truncation toward zero.
Trunc(x, y) == IF x >= 0 THEN x \div y ELSE -((-x) \div y)

\* value * num / Scale, truncated to the money unit, without leaving 32 bits.
RateMul(value, num) ==
    (value \div Scale) * num + ((value % Scale) * num) \div Scale

\* shares * price in money units (price in 1/Scale fen per share).
Amount(shares, price) ==
    (shares \div LotSize) * price
    + (shares % LotSize) * (price \div LotSize)
    + ((shares % LotSize) * (price % LotSize)) \div LotSize

(***************************************************************************)
(* Price histories                                                         *)
(***************************************************************************)

\* date in data.index
HasBar(dat, code, date) == date \in Days /\ dat[code][date] # <<>>

\* data.loc[date, close]
CloseOn(dat, code, date) == dat[code][date][1]

\* The closes of the rows of the window dated <= date, in date order.
RECURSIVE WindowRows(_, _, _)
WindowRows(dat, code, date) ==
    IF date < 0 THEN <<>>
    ELSE WindowRows(dat, code, date - 1) \o
         (IF date \in Days THEN dat[code][date] ELSE <<>>)

\* Every instrument comes with PreBars rows dated before start_date.
PreRows == [k \in 1..PreBars |-> PreClose]

\* The history without the filter on the date: every row of the window.
historical_data_unfiltered(dat, code, date) ==
    PreRows \o WindowRows(dat, code, NDays - 1)

\* data[data.index <= date]: the history available on date.
historical_data(dat, code, date) == PreRows \o WindowRows(dat, code, date)

\* The instruments with a row on date, in universe order, each with its
\* available history.
available_stocks(dat, date) ==
    SelectSeq(Codes, LAMBDA c : HasBar(dat, c, date))

(***************************************************************************)
(* Scores.  A float of the scoring is one of: NaN; the penalty -3.0; 0.0;  *)
(* a standardised value (x - mean) / std of a valid raw value x, kept as   *)
(* the fraction num / den that x is one more than the momentum of.         *)
(***************************************************************************)
NaN == [kind |-> "nan", num |-> 0, den |-> 1]
Penalty == [kind |-> "pen", num |-> 0, den |-> 1]
Zero == [kind |-> "zero", num |-> 0, den |-> 1]
Num(a, b) == [kind |-> "num", num |-> a, den |-> b]

IsNaN(x) == x.kind = "nan"

\* close.pct_change(periods = period).iloc[-1]: last / (row period back) - 1,
\* NaN when the history has fewer than period + 1 rows.
calculate_momentum(rows, period) ==
    IF Len(rows) < period + 1 THEN NaN
    ELSE Num(rows[Len(rows)], rows[Len(rows) - period])

RawEqual(x, y) == x.num * y.den = y.num * x.den
RawLess(x, y) == x.num * y.den < y.num * x.den

\* The normalisation of one factor over the scored instruments: raw maps each
\* scored code to its raw value.
normalized_scores(raw) ==
    LET scored == DOMAIN raw
        valid == {c \in scored : ~IsNaN(raw[c])}
        \* valid_scores.std() is NaN for one value and 0 when all coincide
        stdIsNaN == Cardinality(valid) = 1
        stdIsZero == Cardinality(valid) > 1 /\
                     \A c, d \in valid : RawEqual(raw[c], raw[d])
    IN  IF valid = {} THEN [c \in scored |-> Zero]
        ELSE IF stdIsZero
             THEN [c \in scored |-> IF c \in valid THEN Zero ELSE NaN]
        ELSE IF stdIsNaN
             THEN [c \in scored |-> IF c \in valid THEN NaN ELSE Penalty]
        ELSE [c \in scored |-> IF c \in valid THEN raw[c] ELSE Penalty]

\* calculate_technical_factors followed by calculate_final_score with the
\* factors {momentum: 1.0}: the composite score of each available
\* instrument, as (code, score) items in universe order.
FinalScores(dat, date) ==
    LET avail == available_stocks(dat, date)
        raw == [c \in Range(avail) |->
                  calculate_momentum(historical_data(dat, c, date),
                                     MomentumPeriod)]
        norm == normalized_scores(raw)
    IN  [k \in 1..Len(avail) |-> [code |-> avail[k], score |-> norm[avail[k]]]]

\* x < y on floats.  A standardised value of fewer than twelve valid values
\* lies above -3.0.  The scoring never yields 0.0 and a standardised value
\* together (0.0 arises only when no value is standardised), so that pair is
\* left unordered.
ScoreLess(x, y) ==
    CASE IsNaN(x) \/ IsNaN(y) -> FALSE
      [] x.kind = "pen" -> y.kind # "pen"
      [] y.kind = "pen" -> FALSE
      [] x.kind = "num" /\ y.kind = "num" -> RawLess(x, y)
      [] OTHER -> FALSE

(***************************************************************************)
(* list.sort(key = score, reverse = True) of CPython on a short list: the  *)
(* list is reversed, the leading run is found (and reversed when strictly  *)
(* descending), the rest is inserted by binary insertion, and the list is  *)
(* reversed again.                                                         *)
(***************************************************************************)
ItemLess(a, b) == ScoreLess(a.score, b.score)

RECURSIVE RunEnd(_, _, _)
\* The end of the run that starts at 1 and has reached k.
RunEnd(s, k, descending) ==
    IF k >= Len(s) THEN k
    ELSE IF ItemLess(s[k + 1], s[k]) = descending
         THEN RunEnd(s, k + 1, descending)
         ELSE k

RECURSIVE BinarySearch(_, _, _, _)
\* The place in s[l+1 .. r] (0-based l, r as in binarysort) of pivot.
BinarySearch(s, pivot, l, r) ==
    IF l >= r THEN l
    ELSE LET p == l + ((r - l) \div 2)
         IN  IF ItemLess(pivot, s[p + 1])
             THEN BinarySearch(s, pivot, l, p)
             ELSE BinarySearch(s, pivot, p + 1, r)

InsertAt(s, pos, x) ==
    SubSeq(s, 1, pos) \o <<x>> \o SubSeq(s, pos + 1, Len(s))

RECURSIVE BinarySort(_, _)
\* s[1..start] is sorted; insert s[start+1], s[start+2], ... in turn.
BinarySort(s, start) ==
    IF start >= Len(s) THEN s
    ELSE LET pivot == s[start + 1]
             pos == BinarySearch(s, pivot, 0, start)
             t == InsertAt(SubSeq(s, 1, start), pos, pivot) \o
                  SubSeq(s, start + 2, Len(s))
         IN  BinarySort(t, start + 1)

ListSort(s) ==
    IF Len(s) < 2 THEN s
    ELSE LET descending == ItemLess(s[2], s[1])
             run == RunEnd(s, 2, descending)
             t == IF descending
                  THEN Reverse(SubSeq(s, 1, run)) \o SubSeq(s, run + 1, Len(s))
                  ELSE s
         IN  BinarySort(t, run)

\* Sorting ascending and reversing the result, which turns ties around.
ListSortThenReverse(s) == Reverse(ListSort(s))

ListSortReverse(s) == Reverse(ListSort(Reverse(s)))

\* selected_stocks.sort(key = score, reverse = True); selected_stocks[:k]
SortAndTruncate(items, k) ==
    LET sorted == ListSortReverse(items)
    IN  SubSeq(sorted, 1, IF k < Len(sorted) THEN k ELSE Len(sorted))

CodesOf(items) == [k \in 1..Len(items) |-> items[k].code]

\* selected_codes of a rebalance on date.
SelectedCodes(dat, date, k) == CodesOf(SortAndTruncate(FinalScores(dat, date), k))

(***************************************************************************)
(* The Backtest object: its fields and the locals of run_backtest.         *)
(* positions is the dict in insertion order, a sequence of entries.        *)
(***************************************************************************)
Entry(code, shares) == [code |-> code, shares |-> shares]

Keys(positions) == [k \in 1..Len(positions) |-> positions[k].code]

Held(positions) == Range(Keys(positions))

SharesOf(positions, code) ==
    LET k == CHOOSE k \in 1..Len(positions) : positions[k].code = code
    IN  positions[k].shares

\* del positions[code]
Delete(positions, code) == SelectSeq(positions, LAMBDA e : e.code # code)

\* positions[code] = shares: a new key goes to the end of the dict.
Put(positions, code, shares) ==
    IF code \in Held(positions)
    THEN [k \in 1..Len(positions) |->
            IF positions[k].code = code THEN Entry(code, shares)
            ELSE positions[k]]
    ELSE Append(positions, Entry(code, shares))

\* The commission with the buy rate whatever the side.
calculate_commission_buy_rate(value, is_buy) ==
    LET commission == RateMul(value, commission_rate_buy)
    IN  IF commission > min_commission * Scale THEN commission
        ELSE min_commission * Scale

\* calculate_commission
calculate_commission(value, is_buy) ==
    LET rate == IF is_buy THEN costs.commission_rate_buy
                ELSE costs.commission_rate_sell
        commission == RateMul(value, rate)
    IN  IF commission > costs.min_commission * Scale THEN commission
        ELSE costs.min_commission * Scale

\* apply_slippage: the price in 1/Scale fen per share.
apply_slippage(price, is_buy) ==
    IF is_buy THEN price * (Scale + costs.slippage)
    ELSE price * (Scale - costs.slippage)

\* shares * close in money units (close in fen per share).
CloseValue(shares, close) == Amount(shares, close * Scale)

\* The state of a run that enters its day loop with a position left in
\* place.
InitBacktestHolding ==
    [cash |-> InitialCash * Scale,
     positions |-> <<Entry("A", LotSize)>>,
     trade_history |-> <<>>,
     portfolio_value |-> <<InitialCash * Scale>>,
     returns |-> <<>>,
     i |-> 0,
     pc |-> "day",
     calls |-> 1,
     selected_codes |-> <<>>,
     current_holdings |-> {},
     per_stock_value |-> 0,
     todo |-> <<>>]

\* The state in which the first call of run_backtest enters its day loop;
\* calls counts the calls of run_backtest on the object.
InitBacktest ==
    [cash |-> InitialCash * Scale,
     positions |-> <<>>,
     trade_history |-> <<>>,
     portfolio_value |-> <<InitialCash * Scale>>,
     returns |-> <<>>,
     i |-> 0,
     pc |-> "day",
     calls |-> 1,
     selected_codes |-> <<>>,
     current_holdings |-> {},
     per_stock_value |-> 0,
     todo |-> <<>>]

\* The total value of the rebalance branch: cash plus the positions that
\* have a row on date.
RECURSIVE RebalanceValue(_, _, _)
RebalanceValue(dat, positions, date) ==
    IF positions = <<>> THEN 0
    ELSE (IF HasBar(dat, Head(positions).code, date)
          THEN CloseValue(Head(positions).shares,
                          CloseOn(dat, Head(positions).code, date))
          ELSE 0)
         + RebalanceValue(dat, Tail(positions), date)

\* total_value of the rebalance branch on the day b is at.
TotalValue(b, dat) == b.cash + RebalanceValue(dat, b.positions, b.i)

\* if i % rebalance_period == 0: the snapshot, the scoring, the selection and
\* the choice of the branch.
RebalanceStep(b, dat, period, k) ==
    LET date == b.i
        selected_codes == SelectedCodes(dat, date, k)
        total_value == TotalValue(b, dat)
    IN  IF available_stocks(dat, date) = <<>>
        THEN [b EXCEPT !.pc = "value"]
        ELSE IF b.positions = <<>>
        THEN [b EXCEPT !.selected_codes = selected_codes,
                       !.per_stock_value = total_value \div Len(selected_codes),
                       !.todo = selected_codes,
                       !.pc = "first_buy"]
        ELSE IF Held(b.positions) # Range(selected_codes)
        THEN [b EXCEPT !.selected_codes = selected_codes,
                       !.current_holdings = Held(b.positions),
                       !.todo = Keys(b.positions),
                       !.pc = "sell"]
        ELSE [b EXCEPT !.selected_codes = selected_codes, !.pc = "value"]

\* The share count without the rounding down to whole lots.
SharesForNoLot(actual_value, buy_price) ==
    Trunc(actual_value, buy_price \div LotSize)

\* int(actual_value / buy_price / 100) * 100
SharesFor(actual_value, buy_price) == Trunc(actual_value, buy_price) * LotSize

\* The pass of a buy loop that also executes a buy of no share.
BuyOneZeroShares(b, dat, code) ==
    IF ~HasBar(dat, code, b.i) THEN b
    ELSE LET buy_price == apply_slippage(CloseOn(dat, code, b.i), TRUE)
             commission == calculate_commission(b.per_stock_value, TRUE)
             shares == SharesFor(b.per_stock_value - commission, buy_price)
         IN  IF shares >= 0
             THEN [b EXCEPT
                     !.positions = Put(b.positions, code, shares),
                     !.cash = b.cash - (Amount(shares, buy_price) + commission),
                     !.trade_history = Append(b.trade_history,
                         [date |-> b.i, code |-> code, action |-> "buy",
                          price |-> buy_price, shares |-> shares,
                          value |-> Amount(shares, buy_price),
                          commission |-> commission])]
             ELSE b

\* The pass of a buy loop that debits the shares without the commission.
BuyOneNoCommissionDebit(b, dat, code) ==
    IF ~HasBar(dat, code, b.i) THEN b
    ELSE LET buy_price == apply_slippage(CloseOn(dat, code, b.i), TRUE)
             commission == calculate_commission(b.per_stock_value, TRUE)
             shares == SharesFor(b.per_stock_value - commission, buy_price)
         IN  IF shares > 0
             THEN [b EXCEPT
                     !.positions = Put(b.positions, code, shares),
                     !.cash = b.cash - Amount(shares, buy_price),
                     !.trade_history = Append(b.trade_history,
                         [date |-> b.i, code |-> code, action |-> "buy",
                          price |-> buy_price, shares |-> shares,
                          value |-> Amount(shares, buy_price),
                          commission |-> commission])]
             ELSE b

\* One pass of a buy loop, for code.
BuyOne(b, dat, code) ==
    IF ~HasBar(dat, code, b.i) THEN b
    ELSE LET close_price == CloseOn(dat, code, b.i)
             buy_price == apply_slippage(close_price, TRUE)
             commission == calculate_commission(b.per_stock_value, TRUE)
             actual_value == b.per_stock_value - commission
             shares == SharesFor(actual_value, buy_price)
         IN  IF shares > 0
             THEN [b EXCEPT
                     !.positions = Put(b.positions, code, shares),
                     !.cash = b.cash - (Amount(shares, buy_price) + commission),
                     !.trade_history = Append(b.trade_history,
                         [date |-> b.i, code |-> code, action |-> "buy",
                          price |-> buy_price, shares |-> shares,
                          value |-> Amount(shares, buy_price),
                          commission |-> commission])]
             ELSE b

\* The pass of the sell loop that leaves the sold position in place.
SellOneKeepPosition(b, dat, code) ==
    IF code \in Range(b.selected_codes) \/ ~HasBar(dat, code, b.i) THEN b
    ELSE LET sell_price == apply_slippage(CloseOn(dat, code, b.i), FALSE)
             shares == SharesOf(b.positions, code)
             position_value == Amount(shares, sell_price)
             commission == calculate_commission(position_value, FALSE)
         IN  [b EXCEPT
                 !.cash = b.cash + (position_value - commission),
                 !.trade_history = Append(b.trade_history,
                     [date |-> b.i, code |-> code, action |-> "sell",
                      price |-> sell_price, shares |-> shares,
                      value |-> position_value - commission,
                      commission |-> commission])]

\* One pass of the sell loop, for code.
SellOne(b, dat, code) ==
    IF code \in Range(b.selected_codes) \/ ~HasBar(dat, code, b.i) THEN b
    ELSE LET close_price == CloseOn(dat, code, b.i)
             sell_price == apply_slippage(close_price, FALSE)
             shares == SharesOf(b.positions, code)
             position_value == Amount(shares, sell_price)
             commission == calculate_commission(position_value, FALSE)
             actual_value == position_value - commission
         IN  [b EXCEPT
                 !.cash = b.cash + actual_value,
                 !.trade_history = Append(b.trade_history,
                     [date |-> b.i, code |-> code, action |-> "sell",
                      price |-> sell_price, shares |-> shares,
                      value |-> actual_value,
                      commission |-> commission]),
                 !.positions = Delete(b.positions, code)]

\* The first-buy loop that stops after its first pass.
FirstBuyStepOnce(b, dat) ==
    LET c == BuyOne(b, dat, Head(b.todo))
    IN  [c EXCEPT !.todo = <<>>, !.pc = "value"]

\* The first-buy loop (no position is held): one pass, then on to the next
\* target or to the valuation.
FirstBuyStep(b, dat) ==
    LET c == BuyOne(b, dat, Head(b.todo))
    IN  [c EXCEPT !.todo = Tail(b.todo),
                  !.pc = IF Tail(b.todo) = <<>> THEN "value" ELSE "first_buy"]

\* The sell loop left for the allocation after its first pass.
SellStepOnePass(b, dat) ==
    LET c == SellOne(b, dat, Head(b.todo))
    IN  [c EXCEPT !.todo = <<>>, !.pc = "alloc"]

\* The sell loop over list(positions.keys()).
SellStep(b, dat) ==
    LET c == SellOne(b, dat, Head(b.todo))
    IN  [c EXCEPT !.todo = Tail(b.todo),
                  !.pc = IF Tail(b.todo) = <<>> THEN "alloc" ELSE "sell"]

\* The targets to buy without the holdings taken out.
new_stocks_all_targets(b) == Range(b.selected_codes)

\* new_stocks = selected_set - current_holdings
new_stocks(b) == Range(b.selected_codes) \ b.current_holdings

\* The orders in which a for loop may visit a set of strings.
IterationOrders(S) ==
    {o \in [1..Cardinality(S) -> S] : \A c \in S : \E k \in DOMAIN o : o[k] = c}

\* The allocation that divides by the number of targets, held or not.
AllocateStepAllTargets(b, order) ==
    LET remaining_value == b.cash
    IN  IF new_stocks(b) = {}
        THEN [b EXCEPT !.pc = "value"]
        ELSE [b EXCEPT
                !.per_stock_value = remaining_value \div Len(b.selected_codes),
                !.todo = order,
                !.pc = "buy"]

\* remaining_value (position_values is always empty), per_stock_value and the
\* start of the loop over the set new_stocks, visited in order.
AllocateStep(b, order) ==
    LET remaining_value == b.cash
    IN  IF new_stocks(b) = {}
        THEN [b EXCEPT !.pc = "value"]
        ELSE [b EXCEPT
                !.per_stock_value = remaining_value \div Cardinality(new_stocks(b)),
                !.todo = order,
                !.pc = "buy"]

BuyStep(b, dat) ==
    LET c == BuyOne(b, dat, Head(b.todo))
    IN  [c EXCEPT !.todo = Tail(b.todo),
                  !.pc = IF Tail(b.todo) = <<>> THEN "value" ELSE "buy"]

\* The valuation close without the carry-forward: nothing for a date with no
\* row.
ValuationCloseNoCarry(dat, code, date) ==
    IF HasBar(dat, code, date) THEN <<CloseOn(dat, code, date)>> ELSE <<0>>

\* The valuation close taken from the first earlier row instead of the last.
ValuationCloseFirstRow(dat, code, date) ==
    IF HasBar(dat, code, date) THEN <<CloseOn(dat, code, date)>>
    ELSE LET before == historical_data(dat, code, date - 1)
         IN  IF before = <<>> THEN <<>> ELSE <<before[1]>>

\* The close that values code on date: the close of date, or of the last row
\* dated before it (<<>> when there is none: the lookup then raises).
ValuationClose(dat, code, date) ==
    IF HasBar(dat, code, date) THEN <<CloseOn(dat, code, date)>>
    ELSE LET before == historical_data(dat, code, date - 1)
         IN  IF before = <<>> THEN <<>> ELSE <<before[Len(before)]>>

RECURSIVE PositionsValue(_, _, _)
PositionsValue(dat, positions, date) ==
    IF positions = <<>> THEN 0
    ELSE CloseValue(Head(positions).shares,
                    ValuationClose(dat, Head(positions).code, date)[1])
         + PositionsValue(dat, Tail(positions), date)

\* The ratio current / previous without the - 1.
ReturnRatio(current, previous) == [num |-> current, den |-> previous]

\* A daily return current / previous - 1, kept as the fraction
\* (current - previous) / previous.
Return(current, previous) == [num |-> current - previous, den |-> previous]
ZeroReturn == [num |-> 0, den |-> 1]

\* The valuation that records nothing on a day without a position.
ValuationStepSkipFlat(b, dat) ==
    IF \E k \in 1..Len(b.positions) :
           ValuationClose(dat, b.positions[k].code, b.i) = <<>>
    THEN [b EXCEPT !.pc = "error"]
    ELSE LET current_total_value ==
                 b.cash + PositionsValue(dat, b.positions, b.i)
             prev_total_value == b.portfolio_value[Len(b.portfolio_value)]
             daily_return ==
                 IF b.i > 0 /\ prev_total_value > 0
                 THEN Return(current_total_value, prev_total_value)
                 ELSE ZeroReturn
         IN  IF b.positions = <<>>
             THEN [b EXCEPT !.i = b.i + 1,
                            !.pc = IF b.i + 1 < NDays THEN "day" ELSE "done"]
             ELSE [b EXCEPT
                 !.portfolio_value = Append(b.portfolio_value, current_total_value),
                 !.returns = Append(b.returns, daily_return),
                 !.i = b.i + 1,
                 !.pc = IF b.i + 1 < NDays THEN "day" ELSE "done"]

\* The valuation of the day, its return, and the step to the next day.
ValuationStep(b, dat) ==
    IF \E k \in 1..Len(b.positions) :
           ValuationClose(dat, b.positions[k].code, b.i) = <<>>
    THEN [b EXCEPT !.pc = "error"]
    ELSE LET current_total_value ==
                 b.cash + PositionsValue(dat, b.positions, b.i)
             prev_total_value == b.portfolio_value[Len(b.portfolio_value)]
             daily_return ==
                 IF b.i > 0 /\ prev_total_value > 0
                 THEN Return(current_total_value, prev_total_value)
                 ELSE ZeroReturn
         IN  [b EXCEPT
                 !.portfolio_value = Append(b.portfolio_value, current_total_value),
                 !.returns = Append(b.returns, daily_return),
                 !.i = b.i + 1,
                 !.pc = IF b.i + 1 < NDays THEN "day" ELSE "done"]

\* self.final_scores.nlargest(n) of pandas (keep = "first"): the scores that
\* are not NaN in descending order, equal scores in their first-seen order,
\* then the NaN ones, cut to n.
RECURSIVE StableInsert(_, _)
\* x put into the descending sequence s after every item not below it.
StableInsert(s, x) ==
    IF s = <<>> THEN <<x>>
    ELSE IF ItemLess(Head(s), x) THEN <<x>> \o s
         ELSE <<Head(s)>> \o StableInsert(Tail(s), x)

RECURSIVE StableSortDesc(_)
StableSortDesc(s) ==
    IF s = <<>> THEN <<>>
    ELSE StableInsert(StableSortDesc(SubSeq(s, 1, Len(s) - 1)), s[Len(s)])

select_top_stocks(scores, k) ==
    LET dropped == SelectSeq(scores, LAMBDA it : ~IsNaN(it.score))
        nan_index == SelectSeq(scores, LAMBDA it : IsNaN(it.score))
        all == StableSortDesc(dropped) \o nan_index
    IN  SubSeq(all, 1, IF k < Len(all) THEN k ELSE Len(all))

(***************************************************************************)
(* The attributes of the objects other than the simulator's run state      *)
(***************************************************************************)
\* The cost attributes as __init__ sets them: the rates and the slippage in
\* 1/Scale, the minimum commission in yuan.
DefaultCosts ==
    [commission_rate_buy |-> commission_rate_buy,
     commission_rate_sell |-> commission_rate_sell,
     min_commission |-> min_commission,
     slippage |-> slippage]

\* The factor -> weight mapping of a FactorModel, weights in tenths; raised
\* tells whether the last call raised and call holds its arguments.
FactorNames == {"rsi", "volatility", "momentum"}

NewFactorModel == [factors |-> [f \in {} |-> 0], raised |-> FALSE, call |-> <<>>]

\* The factor model of the scoring above: {momentum: 1.0}.
MomentumModel ==
    [factors |-> [f \in {"momentum"} |-> MaxWeight], raised |-> FALSE,
     call |-> <<>>]

\* The table stock_data of a new database: no row, no call of
\* save_stock_data yet; saves counts the calls, failed tells whether the
\* last one was rolled back and call holds its arguments.
NewDatabase == [rows |-> <<>>, saves |-> 0, failed |-> FALSE, call |-> <<>>]

\* Nothing is analysed or loaded.
NoAnalysis ==
    /\ metrics = <<>>
    /\ reports = <<>>
    /\ test_data = <<>>
    /\ test_data2 = <<>>
    /\ db = NewDatabase

(***************************************************************************)
(* The inputs                                                              *)
(***************************************************************************)
\* Price data over the window: every date of every instrument has a row with
\* one of Closes, or no row.
NormalData == [CodeSet -> [Days -> Bars(Closes)]]

\* Price data of a collapse: a row on every date, the closes never rising.
CrashData ==
    {d \in [CodeSet -> [Days -> Bars(CrashCloses) \ {<<>>}]] :
        \A c \in CodeSet : \A s, t \in Days : s < t => d[c][t][1] <= d[c][s][1]}

NoData == [c \in CodeSet |-> [d \in Days |-> <<>>]]

\* The composite scores a selection may be given.
ScoreValues == {NaN, Penalty, Num(1000, 1000), Num(1200, 1000)}

\* The score mappings over some instruments of the universe, in its order.
ScoreMappings ==
    UNION {
        {[k \in 1..Len(cs) |-> [code |-> cs[k], score |-> f[k]]] :
            f \in [1..Len(cs) -> ScoreValues]} :
        cs \in {SelectSeq(Codes, LAMBDA c : c \in S) : S \in (SUBSET CodeSet) \ {{}}}}

(***************************************************************************)
(* run_backtest, one step of its day loop at a time                        *)
(***************************************************************************)
Init ==
    /\ stock_data \in NormalData \cup CrashData
    /\ rebalance_period \in 1..MaxPeriod
    /\ top_n \in 1..MaxTopN
    /\ bt = InitBacktest
    /\ bt2 = InitBacktest
    /\ final_scores = <<>>
    /\ n = 0
    /\ selected = <<>>
    /\ costs = DefaultCosts
    /\ fm = MomentumModel
    /\ NoAnalysis

\* The rebalance test shifted by one day.
IsRebalanceDayShifted(b) == (b.i + 1) % rebalance_period = 0

\* if i % self.rebalance_period == 0
IsRebalanceDay(b) == b.i % rebalance_period = 0

Inputs == <<stock_data, rebalance_period, top_n, costs>>
Selection == <<final_scores, n, selected>>
Analysis == <<fm, metrics, reports, test_data, test_data2, db>>

\* A Rebalance day with a candidate universe.
Rebalance ==
    /\ bt.pc = "day" /\ IsRebalanceDay(bt)
    /\ available_stocks(stock_data, bt.i) # <<>>
    /\ bt' = RebalanceStep(bt, stock_data, rebalance_period, top_n)
    /\ UNCHANGED <<Inputs, bt2, Selection, Analysis>>

\* A Rebalance day on which no instrument has a row, scored all the same: the
\* composite score of no instrument raises.
RebalanceEmptyRaises ==
    /\ bt.pc = "day" /\ IsRebalanceDay(bt)
    /\ available_stocks(stock_data, bt.i) = <<>>
    /\ bt' = [bt EXCEPT !.pc = "error"]
    /\ UNCHANGED <<Inputs, bt2, Selection, Analysis>>

\* A Rebalance day on which no instrument has a row.
RebalanceEmpty ==
    /\ bt.pc = "day" /\ IsRebalanceDay(bt)
    /\ available_stocks(stock_data, bt.i) = <<>>
    /\ bt' = RebalanceStep(bt, stock_data, rebalance_period, top_n)
    /\ UNCHANGED <<Inputs, bt2, Selection, Analysis>>

\* A Hold day.
Hold ==
    /\ bt.pc = "day" /\ ~IsRebalanceDay(bt)
    /\ bt' = [bt EXCEPT !.pc = "value"]
    /\ UNCHANGED <<Inputs, bt2, Selection, Analysis>>

FirstBuy ==
    /\ bt.pc = "first_buy"
    /\ bt' = FirstBuyStep(bt, stock_data)
    /\ UNCHANGED <<Inputs, bt2, Selection, Analysis>>

Sell ==
    /\ bt.pc = "sell"
    /\ bt' = SellStep(bt, stock_data)
    /\ UNCHANGED <<Inputs, bt2, Selection, Analysis>>

Allocate ==
    /\ bt.pc = "alloc"
    /\ \E order \in IterationOrders(new_stocks(bt)) :
           bt' = AllocateStep(bt, order)
    /\ UNCHANGED <<Inputs, bt2, Selection, Analysis>>

Buy ==
    /\ bt.pc = "buy"
    /\ bt' = BuyStep(bt, stock_data)
    /\ UNCHANGED <<Inputs, bt2, Selection, Analysis>>

Valuation ==
    /\ bt.pc = "value"
    /\ bt' = ValuationStep(bt, stock_data)
    /\ UNCHANGED <<Inputs, bt2, Selection, Analysis>>

Next ==
    \/ Rebalance
    \/ RebalanceEmpty
    \/ Hold
    \/ FirstBuy
    \/ Sell
    \/ Allocate
    \/ Buy
    \/ Valuation

Spec == Init /\ [][Next]_vars

(***************************************************************************)
(* Two executions of run_backtest on the same inputs, step by step         *)
(***************************************************************************)
\* The states one step of run_backtest may lead to from b when the price
\* data is dat.
SuccessorsOn(b, dat) ==
    CASE b.pc = "day" ->
           IF IsRebalanceDay(b)
           THEN {RebalanceStep(b, dat, rebalance_period, top_n)}
           ELSE {[b EXCEPT !.pc = "value"]}
      [] b.pc = "first_buy" -> {FirstBuyStep(b, dat)}
      [] b.pc = "sell" -> {SellStep(b, dat)}
      [] b.pc = "alloc" ->
           {AllocateStep(b, order) : order \in IterationOrders(new_stocks(b))}
      [] b.pc = "buy" -> {BuyStep(b, dat)}
      [] b.pc = "value" -> {ValuationStep(b, dat)}
      [] OTHER -> {b}

Successors(b) == SuccessorsOn(b, stock_data)

BothStep ==
    /\ bt.pc \notin {"done", "error"} \/ bt2.pc \notin {"done", "error"}
    /\ bt' \in Successors(bt)
    /\ bt2' \in Successors(bt2)
    /\ UNCHANGED <<Inputs, Selection, Analysis>>

NextPair == BothStep

SpecPair == Init /\ [][NextPair]_vars

(***************************************************************************)
(* The selection as a function of a score mapping and a count              *)
(***************************************************************************)
InitSel ==
    /\ stock_data = NoData
    /\ rebalance_period = 1
    /\ top_n = 1
    /\ bt = InitBacktest
    /\ bt2 = InitBacktest
    /\ final_scores \in ScoreMappings
    /\ n \in 1..MaxK
    /\ selected = <<>>
    /\ costs = DefaultCosts
    /\ fm = MomentumModel
    /\ NoAnalysis

\* Both selections of the count n from final_scores: the simulator's sort and
\* truncation, and select_top_stocks.
SelectTop ==
    /\ selected = <<>>
    /\ selected' = <<[sorted |-> CodesOf(SortAndTruncate(final_scores, n)),
                      nlargest |-> CodesOf(select_top_stocks(final_scores, n))]>>
    /\ UNCHANGED <<Inputs, bt, bt2, final_scores, n, Analysis>>

NextSel == SelectTop

SpecSel == InitSel /\ [][NextSel]_vars

(***************************************************************************)
(* Calls of run_backtest on one Backtest object, from its construction     *)
(***************************************************************************)
\* stock_data with no instrument.
EmptyData == [c \in {} |-> <<>>]

\* The object as __init__ leaves it.
NewBacktest ==
    [InitBacktest EXCEPT !.portfolio_value = <<>>, !.pc = "new", !.calls = 0]

\* The head of run_backtest: cash and the value series are reset, an empty
\* stock_data prints a message and returns, otherwise positions and the
\* returns are reset and the day loop is entered.  trade_history is not
\* touched.
CallStep(b, dat) ==
    LET c == [b EXCEPT !.cash = InitialCash * Scale,
                       !.portfolio_value = <<InitialCash * Scale>>,
                       !.calls = b.calls + 1]
    IN  IF DOMAIN dat = {}
        THEN [c EXCEPT !.pc = "returned"]
        ELSE [c EXCEPT !.positions = <<>>,
                       !.returns = <<>>,
                       !.i = 0,
                       !.selected_codes = <<>>,
                       !.current_holdings = {},
                       !.per_stock_value = 0,
                       !.todo = <<>>,
                       !.pc = "day"]

InitCalls ==
    /\ stock_data \in NormalData \cup CrashData \cup {EmptyData}
    /\ rebalance_period \in 1..MaxPeriod
    /\ top_n \in 1..MaxTopN
    /\ bt = NewBacktest
    /\ bt2 = InitBacktest
    /\ final_scores = <<>>
    /\ n = 0
    /\ selected = <<>>
    /\ costs = DefaultCosts
    /\ fm = MomentumModel
    /\ NoAnalysis

\* A call of run_backtest on a new object or after an earlier call returned.
Call ==
    /\ bt.pc \in {"new", "done", "returned"}
    /\ bt.calls < MaxCalls
    /\ bt' = CallStep(bt, stock_data)
    /\ UNCHANGED <<Inputs, bt2, Selection, Analysis>>

NextCalls ==
    \/ Call
    \/ Rebalance
    \/ RebalanceEmpty
    \/ Hold
    \/ FirstBuy
    \/ Sell
    \/ Allocate
    \/ Buy
    \/ Valuation

SpecCalls == InitCalls /\ [][NextCalls]_vars

(***************************************************************************)
(* The configuration of a FactorModel                                      *)
(***************************************************************************)
\* The weights tried, in tenths: below 0, the bounds 0 and 1, inside, above 1.
Weights == {-1, 0, 3, 4, 10, 11}

\* add_factor that also rejects the bounds 0 and 1.
add_factor_open_interval(f, factor_name, weight) ==
    IF weight <= MinWeight \/ weight >= MaxWeight
    THEN [f EXCEPT !.raised = TRUE, !.call = <<factor_name, weight>>]
    ELSE [factors |-> [x \in DOMAIN f.factors \cup {factor_name} |->
                          IF x = factor_name THEN weight ELSE f.factors[x]],
          raised |-> FALSE,
          call |-> <<factor_name, weight>>]

\* add_factor: raise ValueError for a weight outside [0, 1], otherwise
\* self.factors[factor_name] = weight.
add_factor(f, factor_name, weight) ==
    IF weight < MinWeight \/ weight > MaxWeight
    THEN [f EXCEPT !.raised = TRUE, !.call = <<factor_name, weight>>]
    ELSE [factors |-> [x \in DOMAIN f.factors \cup {factor_name} |->
                          IF x = factor_name THEN weight ELSE f.factors[x]],
          raised |-> FALSE,
          call |-> <<factor_name, weight>>]

InitFactors ==
    /\ stock_data = NoData
    /\ rebalance_period = 1
    /\ top_n = 1
    /\ bt = InitBacktest
    /\ bt2 = InitBacktest
    /\ final_scores = <<>>
    /\ n = 0
    /\ selected = <<>>
    /\ costs = DefaultCosts
    /\ fm = NewFactorModel
    /\ NoAnalysis

AddFactor ==
    /\ \E factor_name \in FactorNames, weight \in Weights :
           fm' = add_factor(fm, factor_name, weight)
    /\ UNCHANGED <<Inputs, bt, bt2, Selection, metrics, reports, test_data,
                   test_data2, db>>

NextFactors == AddFactor

SpecFactors == InitFactors /\ [][NextFactors]_vars

(***************************************************************************)
(* generate_report: the metrics of a completed run and the terminal values *)
(* it writes.  The annualised return, the volatility and the Sharpe ratio  *)
(* are left out; reading the index file and drawing the plots succeed.     *)
(***************************************************************************)
MaxReports == 2
MaxLedger == 3

\* a * b for 0 <= a, b < 2^30 as <<high, low>> in base 2^30, every
\* intermediate value within 32 bits.
Mul2(a, b) ==
    LET a1 == a \div 32768
        a0 == a % 32768
        b1 == b \div 32768
        b0 == b % 32768
        mid == a1 * b0 + a0 * b1
        low == (mid % 32768) * 32768 + a0 * b0
    IN  <<a1 * b1 + mid \div 32768 + low \div 1073741824, low % 1073741824>>

PairLess(x, y) == x[1] < y[1] \/ (x[1] = y[1] /\ x[2] < y[2])

\* x < y for fractions num / den with den > 0 and num <= 0.
FracLess(x, y) == PairLess(Mul2(-y.num, x.den), Mul2(-x.num, y.den))

\* portfolio_series.cummax() at position k.
RECURSIVE CumMax(_, _)
CumMax(pv, k) ==
    IF k = 1 THEN pv[1]
    ELSE LET m == CumMax(pv, k - 1) IN IF pv[k] > m THEN pv[k] ELSE m

\* ((portfolio_series - cummax) / cummax) at position k.
Drawdown(pv, k) == [num |-> pv[k] - CumMax(pv, k), den |-> CumMax(pv, k)]

\* drawdown.min() over the positions 1..k.
RECURSIVE MinDrawdown(_, _)
MinDrawdown(pv, k) ==
    IF k = 1 THEN Drawdown(pv, 1)
    ELSE LET m == MinDrawdown(pv, k - 1)
         IN  IF FracLess(Drawdown(pv, k), m) THEN Drawdown(pv, k) ELSE m

\* The buys that a sell is compared with: the positions of the ledger that
\* hold a buy of the same code dated before the sell.
buy_trades(ledger, trade) ==
    {j \in 1..Len(ledger) :
        /\ ledger[j].code = trade.code
        /\ ledger[j].action = "buy"
        /\ ledger[j].date < trade.date}

\* profit > 0 for the sell trade against last_buy = buy_trades[-1].
IsWin(ledger, trade) ==
    /\ buy_trades(ledger, trade) # {}
    /\ LET last == CHOOSE j \in buy_trades(ledger, trade) :
                       \A i \in buy_trades(ledger, trade) : i <= j
           diff == trade.price - ledger[last].price
       IN  (diff > 0 /\ trade.shares > 0) \/ (diff < 0 /\ trade.shares < 0)

\* The win rate that counts only the sells with an earlier buy.
win_rate_matched_only(ledger) ==
    LET sells == {k \in 1..Len(ledger) :
                     /\ ledger[k].action = "sell"
                     /\ buy_trades(ledger, ledger[k]) # {}}
        wins == {k \in sells : IsWin(ledger, ledger[k])}
    IN  IF Cardinality(sells) > 0
        THEN [num |-> Cardinality(wins), den |-> Cardinality(sells)]
        ELSE [num |-> 0, den |-> 1]

\* win_rate = win_trades / total_trades if total_trades > 0 else 0
win_rate(ledger) ==
    LET sells == {k \in 1..Len(ledger) : ledger[k].action = "sell"}
        wins == {k \in sells : IsWin(ledger, ledger[k])}
    IN  IF Cardinality(sells) > 0
        THEN [num |-> Cardinality(wins), den |-> Cardinality(sells)]
        ELSE [num |-> 0, den |-> 1]

\* generate_report on the object b: <<the object after the call, the values
\* reported>>; nothing is reported when there is no return.  date_index has
\* one entry per day, and portfolio_value is cut to that length.
generate_report(b) ==
    IF Len(b.returns) = 0 THEN <<b, <<>>>>
    ELSE LET pv == b.portfolio_value
             cut == IF NDays < Len(pv) THEN SubSeq(pv, 1, NDays) ELSE pv
         IN  <<[b EXCEPT !.portfolio_value = cut],
               <<[total_return |-> [num |-> pv[Len(pv)] - pv[1], den |-> pv[1]],
                  max_drawdown |-> MinDrawdown(pv, Len(pv)),
                  win_rate |-> win_rate(b.trade_history),
                  terminal_value |-> cut[Len(cut)],
                  terminal_cash |-> b.cash,
                  terminal_stock_value |-> cut[Len(cut)] - b.cash]>>>>

\* A call of generate_report after run_backtest has returned.
GenerateReport ==
    /\ bt.pc = "done"
    /\ Len(reports) < MaxReports
    /\ bt' = generate_report(bt)[1]
    /\ reports' = reports \o generate_report(bt)[2]
    /\ UNCHANGED <<Inputs, bt2, Selection, fm, metrics, test_data, test_data2, db>>

\* The records a ledger may hold: prices in money units per lot.
LedgerRecords ==
    [date : Days, code : {"A", "B"}, action : {"buy", "sell"}, price : {1, 2},
     shares : {LotSize}, value : {0}, commission : {0}]

\* The ledgers of at most MaxLedger records in date order with at most one
\* record per instrument and date, as run_backtest writes them.
Ledgers ==
    {l \in UNION {[1..k -> LedgerRecords] : k \in 0..MaxLedger} :
        \A j, k \in 1..Len(l) :
            j < k => /\ l[j].date <= l[k].date
                     /\ ~(l[j].date = l[k].date /\ l[j].code = l[k].code)}

\* An object that has completed a run without a gain or a loss and holds a
\* given ledger.
InitLedger ==
    /\ stock_data = NoData
    /\ rebalance_period = 1
    /\ top_n = 1
    /\ \E l \in Ledgers :
           bt = [InitBacktest EXCEPT
                   !.trade_history = l,
                   !.portfolio_value = [k \in 1..(NDays + 1) |-> InitialCash * Scale],
                   !.returns = [k \in 1..NDays |-> ZeroReturn],
                   !.i = NDays,
                   !.pc = "done"]
    /\ bt2 = InitBacktest
    /\ final_scores = <<>>
    /\ n = 0
    /\ selected = <<>>
    /\ costs = DefaultCosts
    /\ fm = MomentumModel
    /\ NoAnalysis

NextLedger == GenerateReport

SpecLedger == InitLedger /\ [][NextLedger]_vars

(***************************************************************************)
(* main after the run: calculate_performance_metrics on the recorded       *)
(* returns, and generate_report                                            *)
(***************************************************************************)
\* calculate_performance_metrics: total_return = (1 + returns).prod() - 1,
\* kept as the factors 1 + r of the product, each a fraction.
calculate_performance_metrics(returns) ==
    [total_return |->
        [one_plus |-> [k \in 1..Len(returns) |->
            [num |-> returns[k].num + returns[k].den, den |-> returns[k].den]]]]

\* metrics = calculate_performance_metrics(pd.Series(backtest.returns))
CalculateMetrics ==
    /\ bt.pc = "done"
    /\ metrics = <<>>
    /\ metrics' = <<calculate_performance_metrics(bt.returns)>>
    /\ UNCHANGED <<Inputs, bt, bt2, Selection, fm, reports, test_data, test_data2, db>>

NextReport ==
    \/ Rebalance
    \/ RebalanceEmpty
    \/ Hold
    \/ FirstBuy
    \/ Sell
    \/ Allocate
    \/ Buy
    \/ Valuation
    \/ CalculateMetrics
    \/ GenerateReport

SpecReport == Init /\ [][NextReport]_vars

(***************************************************************************)
(* A run without costs over instruments that all trade on the first day    *)
(***************************************************************************)
\* The cost attributes set to zero on the object.
ZeroCosts ==
    [commission_rate_buy |-> 0,
     commission_rate_sell |-> 0,
     min_commission |-> 0,
     slippage |-> 0]

\* Closes in fen up to and beyond the allocation of one lot.
ScenarioCloses == {1000, 1200, 25000, 30000}

\* Every instrument has a row on day 0; on a later day it has no row or a
\* row with its close of day 0.
ScenarioData ==
    {d \in [CodeSet -> [Days -> Bars(ScenarioCloses)]] :
        \A c \in CodeSet :
            /\ d[c][0] # <<>>
            /\ \A t \in Days : d[c][t] \in {<<>>, d[c][0]}}

InitScenario ==
    /\ stock_data \in ScenarioData
    /\ rebalance_period \in 1..MaxPeriod
    /\ top_n = 2
    /\ bt = InitBacktest
    /\ bt2 = InitBacktest
    /\ final_scores = <<>>
    /\ n = 0
    /\ selected = <<>>
    /\ costs = ZeroCosts
    /\ fm = MomentumModel
    /\ NoAnalysis

SpecScenario == InitScenario /\ [][Next]_vars

(***************************************************************************)
(* main: the loading of the universe by the thread pool, in two executions *)
(* of the program on the same database.  test_data and test_data2 are the  *)
(* keys of the mapping of each execution in insertion order.               *)
(***************************************************************************)
\* The rows of the database in the test window: an instrument has no row,
\* a row on every date, or a row on every date but the first.
LoadData ==
    [CodeSet -> {[d \in Days |-> <<>>],
                 [d \in Days |-> <<PreClose>>],
                 [d \in Days |-> IF d = 0 THEN <<>> ELSE <<PreClose>>]}]

\* process_stock_data: result['success'], true when the instrument has rows
\* before and inside the test window.
process_stock_data(dat, code) ==
    PreBars > 0 /\ \E d \in Days : HasBar(dat, code, d)

\* The body of the loop over as_completed(futures) for the future of code.
StoreResult(keys, dat, code) ==
    IF process_stock_data(dat, code) THEN Append(keys, code) ELSE keys

\* The futures that as_completed has not yielded yet: those of the
\* instruments not stored (a future without success stores nothing).
Pending(keys) == CodeSet \ Range(keys)

\* test_data[list(test_data.keys())[0]].index[0] and .index[-1]
start_date(dat, keys) ==
    CHOOSE d \in Days : /\ HasBar(dat, keys[1], d)
                        /\ \A e \in Days : HasBar(dat, keys[1], e) => d <= e
end_date(dat, keys) ==
    CHOOSE d \in Days : /\ HasBar(dat, keys[1], d)
                        /\ \A e \in Days : HasBar(dat, keys[1], e) => e <= d

InitLoad ==
    /\ stock_data \in LoadData
    /\ rebalance_period = 1
    /\ top_n = 1
    /\ bt = InitBacktest
    /\ bt2 = InitBacktest
    /\ final_scores = <<>>
    /\ n = 0
    /\ selected = <<>>
    /\ costs = DefaultCosts
    /\ fm = MomentumModel
    /\ NoAnalysis

\* as_completed yields the future of some instrument in the first execution.
Completed ==
    /\ \E code \in Pending(test_data) :
           test_data' = StoreResult(test_data, stock_data, code)
    /\ UNCHANGED <<Inputs, bt, bt2, Selection, fm, metrics, reports, test_data2, db>>

\* as_completed yields the future of some instrument in the second execution.
Completed2 ==
    /\ \E code \in Pending(test_data2) :
           test_data2' = StoreResult(test_data2, stock_data, code)
    /\ UNCHANGED <<Inputs, bt, bt2, Selection, fm, metrics, reports, test_data, db>>

NextLoad ==
    \/ Completed
    \/ Completed2

SpecLoad == InitLoad /\ [][NextLoad]_vars

(***************************************************************************)
(* StockDatabase: the table stock_data with PRIMARY KEY (code, date), its  *)
(* rows in insertion order, each a code, a date and a close                *)
(***************************************************************************)
MaxRows == 2
MaxSaves == 2

\* The instruments saved.
SavedCodes == {"A", "B"}

\* The frames passed to save_stock_data: up to MaxRows bars, in any order of
\* dates, a date possibly twice.
Frames ==
    UNION {[1..k -> [date : Days, close : Closes]] : k \in 0..MaxRows}

\* SELECT MAX(date) FROM stock_data WHERE code = ?: <<>> for None.
last_date(rows, code) ==
    LET dates == {rows[k].date : k \in {j \in 1..Len(rows) : rows[j].code = code}}
    IN  IF dates = {} THEN <<>>
        ELSE <<CHOOSE d \in dates : \A e \in dates : e <= d>>

\* data[data['date'] > last_date] when the code has rows, otherwise data.
new_data(rows, code, data) ==
    IF last_date(rows, code) = <<>> THEN data
    ELSE SelectSeq(data, LAMBDA bar : bar.date > last_date(rows, code)[1])

\* The rows that to_sql(..., if_exists='append') inserts.
Inserted(code, new) ==
    [k \in 1..Len(new) |->
        [code |-> code, date |-> new[k].date, close |-> new[k].close]]

\* The insert violates PRIMARY KEY (code, date).
KeyConflict(rows, code, new) ==
    \/ \E j, k \in 1..Len(new) : j < k /\ new[j].date = new[k].date
    \/ \E j \in 1..Len(rows), k \in 1..Len(new) :
          rows[j].code = code /\ rows[j].date = new[k].date

\* save_stock_data without the key of the table.
save_stock_data_no_key(d, code, data) ==
    [rows |-> d.rows \o Inserted(code, new_data(d.rows, code, data)),
     saves |-> d.saves + 1,
     failed |-> FALSE,
     call |-> <<[code |-> code, data |-> data]>>]

\* save_stock_data: the insert of the new bars in one transaction, rolled
\* back as a whole when it raises.
save_stock_data(d, code, data) ==
    LET new == new_data(d.rows, code, data)
    IN  IF KeyConflict(d.rows, code, new)
        THEN [d EXCEPT !.saves = d.saves + 1, !.failed = TRUE,
                       !.call = <<[code |-> code, data |-> data]>>]
        ELSE [rows |-> d.rows \o Inserted(code, new),
              saves |-> d.saves + 1,
              failed |-> FALSE,
              call |-> <<[code |-> code, data |-> data]>>]

\* get_stock_data(code): SELECT ... WHERE code = ? ORDER BY date, the bars
\* up to date d.
RECURSIVE BarsUpTo(_, _, _)
BarsUpTo(rows, code, d) ==
    IF d < 0 THEN <<>>
    ELSE BarsUpTo(rows, code, d - 1) \o
         SelectSeq(rows, LAMBDA r : r.code = code /\ r.date = d)

get_stock_data(rows, code) == BarsUpTo(rows, code, NDays - 1)

InitStore ==
    /\ stock_data = NoData
    /\ rebalance_period = 1
    /\ top_n = 1
    /\ bt = InitBacktest
    /\ bt2 = InitBacktest
    /\ final_scores = <<>>
    /\ n = 0
    /\ selected = <<>>
    /\ costs = DefaultCosts
    /\ fm = MomentumModel
    /\ NoAnalysis

SaveStockData ==
    /\ db.saves < MaxSaves
    /\ \E code \in SavedCodes, data \in Frames :
           db' = save_stock_data(db, code, data)
    /\ UNCHANGED <<Inputs, bt, bt2, Selection, fm, metrics, reports, test_data,
                   test_data2>>

NextStore == SaveStockData

SpecStore == InitStore /\ [][NextStore]_vars

(***************************************************************************)
(* Properties                                                              *)
(***************************************************************************)
Last(s) == s[Len(s)]

\* A day has ended: its valuation is recorded and nothing of the next day
\* has run.
DayEnded == bt.pc \in {"day", "done"} /\ bt.i >= 1

\* The close of code on the most recent date <= date that has a row; the
\* rows dated before the window all carry PreClose.
LastCloseUpTo(code, date) ==
    LET withRow == {t \in 0..date : HasBar(stock_data, code, t)}
    IN  IF withRow = {} THEN PreClose
        ELSE CloseOn(stock_data, code,
                     CHOOSE t \in withRow : \A u \in withRow : u <= t)

\* C1: at the end of every simulated day the total value recorded for it is
\* the cash plus, for every held instrument, shares times its close of that
\* day or, without a row on that day, of the most recent earlier row.
C1_ValueConservation ==
    DayEnded =>
        Last(bt.portfolio_value) =
            bt.cash + SumSeq([k \in 1..Len(bt.positions) |->
                (bt.positions[k].shares \div LotSize) * Scale
                    * LastCloseUpTo(bt.positions[k].code, bt.i - 1)])

\* A day has ended on which a held instrument had no row and its carried
\* close differs from the pre-window close.
C1_Witness ==
    /\ DayEnded
    /\ \E k \in 1..Len(bt.positions) :
           /\ ~HasBar(stock_data, bt.positions[k].code, bt.i - 1)
           /\ LastCloseUpTo(bt.positions[k].code, bt.i - 1) # PreClose

\* C2: cash is never negative, in particular after every executed buy and
\* every executed sell.
C2_NonNegativeCash == bt.cash >= 0

\* C3: every entry of positions is a non-negative multiple of the lot size.
C3_LotInvariant ==
    \A k \in 1..Len(bt.positions) :
        /\ bt.positions[k].shares >= 0
        /\ bt.positions[k].shares % LotSize = 0

\* A position bought at a rebalance that followed a sale is held over a
\* later day.
C3_Witness ==
    /\ bt.pc = "done"
    /\ bt.positions # <<>>
    /\ \E j, k \in 1..Len(bt.trade_history) :
           /\ j < k
           /\ bt.trade_history[j].action = "sell"
           /\ bt.trade_history[k].action = "buy"
           /\ bt.trade_history[k].date < NDays - 1

\* C4: two executions on the same inputs end with the same trade ledger and
\* the same value series.
C4_Determinism ==
    (bt.pc = "done" /\ bt2.pc = "done") =>
        /\ bt.trade_history = bt2.trade_history
        /\ bt.portfolio_value = bt2.portfolio_value

\* The price data that agree with stock_data on every date <= date and differ
\* from it in at most one later row.
FutureVariants(date) ==
    UNION {
        {[stock_data EXCEPT ![c][t] = bar] :
            bar \in Bars(Closes) \ {stock_data[c][t]}} :
        c \in CodeSet, t \in {u \in Days : u > date}}

\* C5: no step of day i depends on a row dated after i: from every state
\* of a run, price data that differ only after the current date lead to the
\* same targets, trades, cash, positions, total value and daily return.
\* (Runs on data that agree up to d therefore agree on every day up to d.)
C5_NoLookahead ==
    LET here == SuccessorsOn(bt, stock_data)
    IN  \A alt \in FutureVariants(bt.i) : SuccessorsOn(bt, alt) = here

\* A rebalance that has traded, scored on a full momentum window, with a
\* later date still to come whose rows could differ.
C5_Witness ==
    /\ bt.pc = "value"
    /\ bt.i < NDays - 1
    /\ bt.i % rebalance_period = 0
    /\ \E k \in 1..Len(bt.trade_history) : bt.trade_history[k].date = bt.i
    /\ \E k \in 1..Len(FinalScores(stock_data, bt.i)) :
           FinalScores(stock_data, bt.i)[k].score.kind = "num"
    /\ \E c \in CodeSet : HasBar(stock_data, c, bt.i + 1)

ScoreOf(code) ==
    LET k == CHOOSE k \in 1..Len(final_scores) : final_scores[k].code = code
    IN  final_scores[k].score

Distinct(s) == \A j, k \in 1..Len(s) : j # k => s[j] # s[k]

\* out is a top-n selection of final_scores: min(n, size) distinct
\* instruments, none left out scoring strictly above one returned.
IsTopSelection(out) ==
    /\ Len(out) = (IF n < Len(final_scores) THEN n ELSE Len(final_scores))
    /\ Distinct(out)
    /\ Range(out) \subseteq Range(CodesOf(final_scores))
    /\ \A x \in Range(CodesOf(final_scores)) \ Range(out) :
           \A y \in Range(out) : ~ScoreLess(ScoreOf(y), ScoreOf(x))

\* C6: for every score mapping and count, both selections return min(n,
\* size) distinct instruments and leave out none that scores strictly above
\* a returned one.
C6_TopSelection ==
    selected # <<>> =>
        /\ IsTopSelection(selected[1].sorted)
        /\ IsTopSelection(selected[1].nlargest)

\* x == y on floats.
ScoreEqual(x, y) ==
    ~IsNaN(x) /\ ~IsNaN(y) /\ ~ScoreLess(x, y) /\ ~ScoreLess(y, x)

\* Of two instruments with equal scores, out never holds the later one of
\* the mapping without the earlier one.
EarlierWinsTies(out) ==
    \A j, k \in 1..Len(final_scores) :
        (/\ j < k
         /\ ScoreEqual(final_scores[j].score, final_scores[k].score)
         /\ final_scores[k].code \in Range(out))
            => final_scores[j].code \in Range(out)

RebalanceOnlyOnMultiples ==
    /\ bt.pc \in {"first_buy", "sell", "alloc", "buy"}
           => bt.i % rebalance_period = 0
    /\ Len(bt.portfolio_value) = bt.i + 1
    /\ Len(bt.returns) = bt.i

\* A step of run_backtest on a day of the given kind.
DayStepFrame ==
    /\ \* a day whose index is a multiple enters the rebalance
       (bt.pc = "day" /\ bt.i % rebalance_period = 0
            /\ available_stocks(stock_data, bt.i) # <<>>)
           => /\ bt'.selected_codes = SelectedCodes(stock_data, bt.i, top_n)
              /\ bt.positions = <<>> => bt'.pc = "first_buy"
    /\ \* any other day changes nothing but the two series, by one entry each
       (bt.i < NDays /\ bt.i % rebalance_period # 0)
           => /\ bt'.cash = bt.cash
              /\ bt'.positions = bt.positions
              /\ bt'.trade_history = bt.trade_history
              /\ \/ /\ bt'.i = bt.i
                    /\ bt'.portfolio_value = bt.portfolio_value
                    /\ bt'.returns = bt.returns
                 \/ /\ bt'.i = bt.i + 1
                    /\ Len(bt'.portfolio_value) = Len(bt.portfolio_value) + 1
                    /\ SubSeq(bt'.portfolio_value, 1, Len(bt.portfolio_value))
                           = bt.portfolio_value
                    /\ Len(bt'.returns) = Len(bt.returns) + 1
                    /\ SubSeq(bt'.returns, 1, Len(bt.returns)) = bt.returns

C9_HeldWithinTarget ==
    (/\ bt.pc = "value"
     /\ bt.i % rebalance_period = 0
     /\ available_stocks(stock_data, bt.i) # <<>>)
        => Held(bt.positions) \subseteq Range(bt.selected_codes)

\* A pass of the sell loop that sells: the instrument is not a target and
\* has a row today.
SellExecutes ==
    /\ bt.pc = "sell"
    /\ Head(bt.todo) \notin Range(bt.selected_codes)
    /\ HasBar(stock_data, Head(bt.todo), bt.i)

\* The effect of the sale of the s shares held of code at close c.
SaleEffect ==
    LET code == Head(bt.todo)
        s == SharesOf(bt.positions, code)
        c == CloseOn(stock_data, code, bt.i)
        p == c * (Scale - slippage)
        gross == (s \div LotSize) * p
        byRate == (gross \div Scale) * commission_rate_sell
                  + ((gross % Scale) * commission_rate_sell) \div Scale
        commission == IF byRate > min_commission * Scale THEN byRate
                      ELSE min_commission * Scale
    IN  /\ bt'.cash = bt.cash + gross - commission
        /\ Len(bt'.trade_history) = Len(bt.trade_history) + 1
        /\ SubSeq(bt'.trade_history, 1, Len(bt.trade_history)) = bt.trade_history
        /\ Last(bt'.trade_history).action = "sell"
        /\ Last(bt'.trade_history).code = code
        /\ Last(bt'.trade_history).date = bt.i
        /\ Last(bt'.trade_history).shares = s
        /\ Last(bt'.trade_history).price = p
        /\ Last(bt'.trade_history).commission = commission
        /\ code \notin Held(bt'.positions)
        /\ \A k \in 1..Len(bt.positions) :
               bt.positions[k].code # code =>
                   \E j \in 1..Len(bt'.positions) :
                       bt'.positions[j] = bt.positions[k]

\* C10: a sell of s shares at close c executes at p = c * (1 - slippage),
\* charges max(sell_rate * s * p, min_commission), adds s * p - commission
\* to cash, appends one sell record of s shares at p and removes the
\* instrument from positions.
C10_SellEffect == [][SellExecutes => SaleEffect]_vars

\* A sale has just been recorded whose commission is above the minimum.
C10_Witness ==
    /\ bt.pc \in {"sell", "alloc"}
    /\ bt.trade_history # <<>>
    /\ Last(bt.trade_history).action = "sell"
    /\ Last(bt.trade_history).date = bt.i
    /\ Last(bt.trade_history).commission > min_commission * Scale

\* The codes of the sales recorded on date.
SoldOn(b, date) ==
    {b.trade_history[k].code : k \in {j \in 1..Len(b.trade_history) :
        /\ b.trade_history[j].action = "sell"
        /\ b.trade_history[j].date = date}}

\* The capital allocated per instrument: at a first rebalance the cash over
\* the targets, otherwise the cash after the sell loop over the targets that
\* were not held before the rebalance; it stays the same through the buy loop.
AllocationRule ==
    /\ (bt.pc = "day" /\ bt'.pc = "first_buy")
           => bt'.per_stock_value = bt.cash \div Len(bt'.selected_codes)
    /\ (bt.pc = "alloc" /\ bt'.pc = "buy")
           => LET heldBefore == Held(bt.positions) \cup SoldOn(bt, bt.i)
                  entering == Range(bt.selected_codes) \ heldBefore
              IN  bt'.per_stock_value = bt.cash \div Cardinality(entering)
    /\ bt.pc \in {"first_buy", "buy"}
           => bt'.per_stock_value = bt.per_stock_value

\* A pass of a buy loop.
BuyAttempt == bt.pc \in {"first_buy", "buy"}

\* The lots and commission of the buy of Head(todo) with the allocated
\* capital: <<lots, price, commission>>.
BuyTerms ==
    LET code == Head(bt.todo)
        c == CloseOn(stock_data, code, bt.i)
        p == c * (Scale + slippage)
        alloc == bt.per_stock_value
        byRate == (alloc \div Scale) * commission_rate_buy
                  + ((alloc % Scale) * commission_rate_buy) \div Scale
        commission == IF byRate > min_commission * Scale THEN byRate
                      ELSE min_commission * Scale
    IN  <<(alloc - commission) \div p, p, commission>>

\* The effect of a buy that finds at least one lot.
BuyEffect ==
    LET code == Head(bt.todo)
        lots == BuyTerms[1]
        p == BuyTerms[2]
        commission == BuyTerms[3]
    IN  lots > 0 =>
        /\ HasBar(stock_data, code, bt.i)
        /\ bt'.cash = bt.cash - (lots * p + commission)
        /\ Len(bt'.trade_history) = Len(bt.trade_history) + 1
        /\ SubSeq(bt'.trade_history, 1, Len(bt.trade_history)) = bt.trade_history
        /\ Last(bt'.trade_history).action = "buy"
        /\ Last(bt'.trade_history).code = code
        /\ Last(bt'.trade_history).date = bt.i
        /\ Last(bt'.trade_history).shares = lots * LotSize
        /\ Last(bt'.trade_history).price = p
        /\ Last(bt'.trade_history).commission = commission
        /\ code \in Held(bt'.positions)
        /\ SharesOf(bt'.positions, code) = lots * LotSize

\* C11: the capital allocated to each instrument entering the targets is the
\* cash after the sell loop over the number of targets not held before; a buy
\* at close c pays p = c * (1 + slippage), commission max(buy_rate *
\* allocated, min_commission), takes floor((allocated - commission) / p / 100)
\* lots and, when that is positive, lowers cash by shares * p + commission and
\* appends one buy record.
C11_BuyAllocation == [][AllocationRule /\ (BuyAttempt => BuyEffect)]_vars

\* A rebalance that kept one target, sold another holding and has bought the
\* one entering target with the whole cash.
C11_Witness ==
    /\ bt.pc = "value"
    /\ Len(bt.selected_codes) = 2
    /\ SoldOn(bt, bt.i) # {}
    /\ Last(bt.trade_history).action = "buy"
    /\ Last(bt.trade_history).date = bt.i
    /\ \E c \in Range(bt.selected_codes) : c \in bt.current_holdings

\* A skipped buy changes nothing and the loop goes on to the next target or
\* to the valuation of the day.
SkipFrame ==
    (BuyAttempt /\ BuyTerms[1] <= 0) =>
        /\ bt'.cash = bt.cash
        /\ bt'.positions = bt.positions
        /\ bt'.trade_history = bt.trade_history
        /\ bt'.todo = Tail(bt.todo)
        /\ bt'.i = bt.i
        /\ bt'.pc = IF Tail(bt.todo) = <<>> THEN "value" ELSE bt.pc

\* C12: a buy whose share count is not positive is skipped: cash, positions
\* and the ledger stay as they are, nothing is raised, and the run goes on
\* with the remaining targets and days.
C12_SkippedBuy ==
    /\ [][SkipFrame]_vars
    /\ [](bt.pc # "error")
    /\ [][bt.pc = "value" => bt'.pc \in {"day", "done"}]_vars

\* The run has ended after a first rebalance that skipped its first target
\* and bought its second.
C12_Witness ==
    /\ bt.pc = "done"
    /\ top_n = 2
    /\ Len(SelectedCodes(stock_data, 0, top_n)) = 2
    /\ bt.trade_history # <<>>
    /\ bt.trade_history[1].date = 0
    /\ bt.trade_history[1].code = SelectedCodes(stock_data, 0, top_n)[2]

\* A step keeps every record of the ledger in its place.
LedgerExtends ==
    /\ Len(bt'.trade_history) >= Len(bt.trade_history)
    /\ SubSeq(bt'.trade_history, 1, Len(bt.trade_history)) = bt.trade_history

\* The dates of the records never decrease along the ledger.
LedgerDateOrdered ==
    \A j, k \in 1..Len(bt.trade_history) :
        j < k => bt.trade_history[j].date <= bt.trade_history[k].date

\* C13: across the calls of run_backtest on an object the ledger only grows
\* at its end and the dates of its records are non-decreasing.
C13_LedgerAppendOnlyOrdered == [][LedgerExtends]_vars /\ []LedgerDateOrdered

\* C14: every record of the ledger has the fields date, code, action, price,
\* shares, value and commission, and its value is the gross shares * price.
C14_RecordGrossValue ==
    \A k \in 1..Len(bt.trade_history) :
        LET r == bt.trade_history[k]
        IN  /\ DOMAIN r = {"date", "code", "action", "price", "shares",
                           "value", "commission"}
            /\ r.action \in {"buy", "sell"}
            /\ r.value = (r.shares \div LotSize) * r.price

\* No record of the ledger is dated date.
NoTradeOn(date) ==
    \A k \in 1..Len(bt.trade_history) : bt.trade_history[k].date # date

\* No held instrument has a row on date.
NoHeldBarOn(date) ==
    \A k \in 1..Len(bt.positions) :
        ~HasBar(stock_data, bt.positions[k].code, date)

\* The two latest days are days of a gap: nothing held has a row and nothing
\* is traded.
GapDays ==
    /\ DayEnded /\ bt.i >= 2
    /\ bt.positions # <<>>
    /\ NoHeldBarOn(bt.i - 1) /\ NoHeldBarOn(bt.i - 2)
    /\ NoTradeOn(bt.i - 1) /\ NoTradeOn(bt.i - 2)

\* C15: a held instrument without a row on a day is valued at its close of
\* the most recent earlier row; over consecutive days on which nothing held
\* has a row and nothing is traded the total value stays the same and the
\* daily return after the first of them is 0.
C15_CarryForward ==
    /\ (DayEnded /\ NoHeldBarOn(bt.i - 1)) =>
           Last(bt.portfolio_value) =
               bt.cash + SumSeq([k \in 1..Len(bt.positions) |->
                   (bt.positions[k].shares \div LotSize) * Scale
                       * LastCloseUpTo(bt.positions[k].code, bt.i - 2)])
    /\ GapDays =>
           /\ Last(bt.portfolio_value)
                  = bt.portfolio_value[Len(bt.portfolio_value) - 1]
           /\ Last(bt.returns).num = 0

\* A gap of two days over which a close of the window is carried.
C15_Witness ==
    /\ GapDays
    /\ \E k \in 1..Len(bt.positions) :
           LastCloseUpTo(bt.positions[k].code, bt.i - 1) # PreClose

\* The total value recorded for day d (portfolio_value starts with the
\* initial cash).
TotalOf(d) == bt.portfolio_value[d + 2]

\* C16: the return recorded for day 0 is 0, and for a day d >= 1 whose
\* previous total is positive it is total(d) / total(d - 1) - 1.
C16_DailyReturn ==
    \A d \in 0..(Len(bt.returns) - 1) :
        /\ d = 0 => bt.returns[1].num = 0
        /\ (d >= 1 /\ TotalOf(d - 1) > 0) =>
               /\ bt.returns[d + 1].num = TotalOf(d) - TotalOf(d - 1)
               /\ bt.returns[d + 1].den = TotalOf(d - 1)

\* A day after the first has ended with a gain or a loss.
C16_Witness ==
    /\ DayEnded /\ bt.i >= 2
    /\ TotalOf(bt.i - 2) > 0
    /\ TotalOf(bt.i - 1) # TotalOf(bt.i - 2)
    /\ Last(bt.returns).num # 0

\* The scoring of the day has run: the day is a Rebalance day with a
\* candidate universe and its rebalance step is done.
ScoredToday ==
    /\ bt.pc \in {"first_buy", "sell", "alloc", "buy", "value"}
    /\ bt.i % rebalance_period = 0
    /\ available_stocks(stock_data, bt.i) # <<>>

\* The raw momentum of code on the current date.
RawMomentum(code) ==
    calculate_momentum(historical_data(stock_data, code, bt.i), MomentumPeriod)

\* The number of scored instruments with a valid raw momentum.
ValidCount ==
    Cardinality({c \in Range(available_stocks(stock_data, bt.i)) :
                    ~IsNaN(RawMomentum(c))})

\* C17: at every rebalance every scored instrument whose raw factor value is
\* undefined gets the normalised score -3.0, however many instruments have a
\* valid value.
C17_PenaltyForInvalid ==
    ScoredToday =>
        \A k \in 1..Len(FinalScores(stock_data, bt.i)) :
            LET item == FinalScores(stock_data, bt.i)[k]
            IN  IsNaN(RawMomentum(item.code)) => item.score = Penalty

\* The valid raw values of the day all coincide.
ValidCoincide ==
    /\ ValidCount >= 1
    /\ \A c, d \in Range(available_stocks(stock_data, bt.i)) :
           (~IsNaN(RawMomentum(c)) /\ ~IsNaN(RawMomentum(d)))
               => RawEqual(RawMomentum(c), RawMomentum(d))

\* C18: when the valid raw values of a factor all coincide, one valid value
\* included, every valid instrument's normalised score is raw - mean = 0, a
\* defined number.
C18_ZeroStdCentered ==
    (ScoredToday /\ ValidCoincide) =>
        \A k \in 1..Len(FinalScores(stock_data, bt.i)) :
            LET item == FinalScores(stock_data, bt.i)[k]
            IN  ~IsNaN(RawMomentum(item.code)) => item.score = Zero

\* The current day is a Rebalance day on which no instrument has a row.
EmptyUniverseDay ==
    /\ bt.i \in Days
    /\ bt.i % rebalance_period = 0
    /\ available_stocks(stock_data, bt.i) = <<>>

\* The steps of such a day: straight to the valuation, which appends one
\* total value and one return; cash, positions and the ledger stay.
EmptyUniverseFrame ==
    (EmptyUniverseDay /\ bt.pc \in {"day", "value"}) =>
        /\ bt'.cash = bt.cash
        /\ bt'.positions = bt.positions
        /\ bt'.trade_history = bt.trade_history
        /\ bt.pc = "day" =>
               /\ bt'.pc = "value"
               /\ bt'.portfolio_value = bt.portfolio_value
               /\ bt'.returns = bt.returns
        /\ bt.pc = "value" =>
               /\ bt'.pc \in {"day", "done"}
               /\ bt'.i = bt.i + 1
               /\ Len(bt'.portfolio_value) = Len(bt.portfolio_value) + 1
               /\ Len(bt'.returns) = Len(bt.returns) + 1

\* C19: a Rebalance day with an empty candidate universe raises nothing,
\* leaves cash, positions and the ledger as they were, and is valued: its
\* total value and daily return are recorded.
C19_EmptyUniverseHolds ==
    /\ [][EmptyUniverseFrame]_vars
    /\ [](EmptyUniverseDay => bt.pc \in {"day", "value"})

\* A Rebalance day without any row has ended with a position held.
C19_Witness ==
    /\ DayEnded
    /\ (bt.i - 1) % rebalance_period = 0
    /\ available_stocks(stock_data, bt.i - 1) = <<>>
    /\ bt.positions # <<>>
    /\ Len(bt.portfolio_value) = bt.i + 1
    /\ Len(bt.returns) = bt.i

\* C20: a call of run_backtest with no instrument ends at once in an error
\* raised to the caller, and leaves no value series and no return series
\* behind.
C20_EmptyUniverseError ==
    (DOMAIN stock_data = {} /\ bt.calls >= 1) =>
        /\ bt.pc = "error"
        /\ bt.portfolio_value = <<>>
        /\ bt.returns = <<>>

\* The effect of the call add_factor(name, w) that a step makes.
AddFactorEffect ==
    LET name == fm'.call[1]
        w == fm'.call[2]
    IN  IF w < 0 \/ w > 10
        THEN fm'.raised /\ fm'.factors = fm.factors
        ELSE /\ ~fm'.raised
             /\ DOMAIN fm'.factors = DOMAIN fm.factors \cup {name}
             /\ fm'.factors[name] = w
             /\ \A x \in DOMAIN fm.factors \ {name} :
                    fm'.factors[x] = fm.factors[x]

\* C21: add_factor with a weight below 0 or above 1 raises and leaves the
\* mapping as it was; with a weight in [0, 1], bounds included, it sets the
\* weight of the factor, whatever the weights sum to.
C21_AddFactor == [][AddFactorEffect]_vars

\* A call was rejected on a mapping that holds both bounds 0 and 1, whose
\* weights do not sum to 1.
C21_Witness ==
    /\ fm.raised
    /\ \E a, b, c \in DOMAIN fm.factors :
           /\ fm.factors[a] = 0 /\ fm.factors[b] = 10 /\ fm.factors[c] = 4

\* The sells of the ledger and, of them, the wins: a sell wins when a buy of
\* its instrument with a strictly earlier date exists and its price is above
\* the price of the most recent such buy.
LedgerSells ==
    {k \in 1..Len(bt.trade_history) : bt.trade_history[k].action = "sell"}

EarlierBuys(k) ==
    {j \in 1..Len(bt.trade_history) :
        /\ bt.trade_history[j].action = "buy"
        /\ bt.trade_history[j].code = bt.trade_history[k].code
        /\ bt.trade_history[j].date < bt.trade_history[k].date}

LedgerWins ==
    {k \in LedgerSells :
        \E j \in EarlierBuys(k) :
            /\ \A i \in EarlierBuys(k) :
                   bt.trade_history[i].date <= bt.trade_history[j].date
            /\ bt.trade_history[k].price > bt.trade_history[j].price}

\* C22: the win rate is wins / sells, a sell without an earlier buy of its
\* instrument counting as a sell and not as a win, and 0 without any sell.
C22_WinRate ==
    \A r \in 1..Len(reports) :
        IF LedgerSells = {}
        THEN reports[r].win_rate.num = 0
        ELSE /\ reports[r].win_rate.num = Cardinality(LedgerWins)
             /\ reports[r].win_rate.den = Cardinality(LedgerSells)

\* The report of a ledger with two sells, one a win and one without an
\* earlier buy: the win rate is 1/2.
C22_Witness ==
    /\ reports # <<>>
    /\ Cardinality(LedgerSells) = 2
    /\ Cardinality(LedgerWins) = 1
    /\ \E k \in LedgerSells : EarlierBuys(k) = {}
    /\ reports[1].win_rate = [num |-> 1, den |-> 2]

\* The total value of the last simulated day, from the cash and the
\* positions at the end of the run.
LastDayTotal ==
    bt.cash + SumSeq([k \in 1..Len(bt.positions) |->
        (bt.positions[k].shares \div LotSize) * Scale
            * LastCloseUpTo(bt.positions[k].code, NDays - 1)])

\* C23: the terminal value reported after a completed run is the total value
\* of the last simulated day, and the terminal stock value is that total
\* minus the cash at the end of the run.
C23_TerminalValue ==
    \A r \in 1..Len(reports) :
        /\ reports[r].terminal_value = LastDayTotal
        /\ reports[r].terminal_stock_value = LastDayTotal - bt.cash

\* The fields of the object that a report must leave alone.
RunState(b) ==
    <<b.portfolio_value, b.returns, b.trade_history, b.cash, b.positions>>

\* The figures of a report that the claim compares.
Figures(r) == <<r.total_return, r.max_drawdown, r.win_rate, r.terminal_value>>

\* C24: generate_report leaves the value series, the return series, the
\* ledger, cash and positions unchanged, and a second call on the same
\* completed run yields the same total return, max drawdown, win rate and
\* terminal value as the first.
C24_ReportPure ==
    [][/\ reports' # reports => RunState(bt') = RunState(bt)
       /\ Len(reports') = 2 => Figures(reports'[1]) = Figures(reports'[2])]_vars

\* Exact products of integers, as sign and magnitude, the magnitude in limbs
\* of 15 bits, least significant first and without leading zero limbs.
RECURSIVE Limbs(_)
Limbs(x) == IF x = 0 THEN <<>> ELSE <<x % 32768>> \o Limbs(x \div 32768)

RECURSIVE AddL(_, _, _)
AddL(x, y, carry) ==
    IF x = <<>> /\ y = <<>> THEN Limbs(carry)
    ELSE LET a == IF x = <<>> THEN 0 ELSE x[1]
             b == IF y = <<>> THEN 0 ELSE y[1]
             v == a + b + carry
         IN  <<v % 32768>> \o AddL(IF x = <<>> THEN x ELSE Tail(x),
                                   IF y = <<>> THEN y ELSE Tail(y),
                                   v \div 32768)

RECURSIVE MulSmall(_, _, _)
MulSmall(x, s, carry) ==
    IF x = <<>> THEN Limbs(carry)
    ELSE LET v == x[1] * s + carry
         IN  <<v % 32768>> \o MulSmall(Tail(x), s, v \div 32768)

ShiftL(x) == IF x = <<>> THEN x ELSE <<0>> \o x

RECURSIVE MulL(_, _)
MulL(x, y) ==
    IF y = <<>> \/ x = <<>> THEN <<>>
    ELSE AddL(IF y[1] = 0 THEN <<>> ELSE MulSmall(x, y[1], 0),
              ShiftL(MulL(x, Tail(y))), 0)

AbsVal(x) == IF x < 0 THEN -x ELSE x

RECURSIVE ProductL(_)
ProductL(s) ==
    IF s = <<>> THEN <<1>> ELSE MulL(ProductL(Tail(s)), Limbs(AbsVal(s[1])))

BigProd(s) ==
    [sign |-> IF \E k \in 1..Len(s) : s[k] = 0 THEN 0
              ELSE IF Cardinality({k \in 1..Len(s) : s[k] < 0}) % 2 = 0 THEN 1
              ELSE -1,
     mag |-> ProductL(s)]

\* Equality of the fractions a.num / a.den and b.num / b.den.
FracEq(a, b) == BigProd(<<a.num, b.den>>) = BigProd(<<b.num, a.den>>)

\* The growth factor that compounding the recorded returns gives, as a
\* fraction: the product of the numerators over the product of the
\* denominators of the factors 1 + r; it equals 1 + r exactly when
\* prod(num) * r.den = prod(den) * (r.num + r.den).
CompoundedIs(m, r) ==
    BigProd([k \in 1..Len(m.total_return.one_plus) |->
                m.total_return.one_plus[k].num] \o <<r.den>>)
  = BigProd([k \in 1..Len(m.total_return.one_plus) |->
                m.total_return.one_plus[k].den] \o <<r.num + r.den>>)

\* C25: the total return of a completed run is final / initial - 1 with
\* initial the starting cash and final the last day's total, and the value
\* obtained by compounding the recorded daily returns equals the value the
\* report obtains from the value series.
C25_TotalReturnAgree ==
    (metrics # <<>> /\ reports # <<>>) =>
        /\ FracEq(reports[1].total_return,
                  [num |-> LastDayTotal - InitialCash * Scale,
                   den |-> InitialCash * Scale])
        /\ CompoundedIs(metrics[1], reports[1].total_return)

\* floor(25000 / close / 100) * 100 for the close of code on day 0, the
\* close in fen: 25000 yuan are 2500000 fen.
ExpectedShares(code) ==
    ((2500000 \div CloseOn(stock_data, code, 0)) \div 100) * 100

\* The day-0 rebalance of the scenario is over: the first-buy loop has
\* finished and the valuation of day 0 is next.
ScenarioBought == costs = ZeroCosts /\ bt.i = 0 /\ bt.pc = "value"

\* C26: with A, B, C all trading on day 0 with too little history, weights
\* {momentum: 1.0}, top_n 2 and no costs, the day-0 rebalance scores all
\* three alike, selects exactly A and B and buys floor(25000/close/100)*100
\* shares of each; no buy is skipped when both closes are at most 250.
C26_ZeroCostScenario ==
    ScenarioBought =>
        LET scores == FinalScores(stock_data, 0)
        IN  /\ Len(scores) = 3
            /\ \A k \in 1..3 : scores[k].score = scores[1].score
            /\ bt.selected_codes = <<"A", "B">>
            /\ Held(bt.positions) \subseteq {"A", "B"}
            /\ \A c \in {"A", "B"} :
                 /\ ExpectedShares(c) > 0 =>
                      /\ c \in Held(bt.positions)
                      /\ SharesOf(bt.positions, c) = ExpectedShares(c)
                 /\ ExpectedShares(c) = 0 => c \notin Held(bt.positions)
            /\ \A k \in 1..Len(bt.trade_history) :
                 /\ bt.trade_history[k].action = "buy"
                 /\ bt.trade_history[k].shares =
                        ExpectedShares(bt.trade_history[k].code)
            /\ (\A c \in {"A", "B"} : CloseOn(stock_data, c, 0) <= 25000) =>
                 /\ Keys(bt.positions) = <<"A", "B">>
                 /\ Len(bt.trade_history) = 2

\* Both buys of the scenario were executed, at different closes.
C26_Witness ==
    /\ ScenarioBought
    /\ CloseOn(stock_data, "A", 0) = 25000
    /\ CloseOn(stock_data, "B", 0) = 1200
    /\ Keys(bt.positions) = <<"A", "B">>
    /\ SharesOf(bt.positions, "A") = 100
    /\ SharesOf(bt.positions, "B") = 2000
    /\ bt.cash = 10000000

\* The series while the day loop is at day bt.i: one return per finished
\* day, and the starting cash followed by one total per finished day.
SeriesShape ==
    bt.pc # "error" =>
        /\ Len(bt.returns) = bt.i
        /\ Len(bt.portfolio_value) = bt.i + 1
        /\ bt.portfolio_value[1] = InitialCash * Scale
        /\ bt.pc = "done" <=> bt.i = NDays

\* A step that finishes a day appends the total of that day to the value
\* series and one return to the return series; any other step leaves both
\* series alone.
SeriesStep ==
    IF bt'.i = bt.i + 1
    THEN /\ bt'.portfolio_value =
              Append(bt.portfolio_value,
                     bt'.cash + PositionsValue(stock_data, bt'.positions, bt.i))
         /\ Len(bt'.returns) = Len(bt.returns) + 1
         /\ SubSeq(bt'.returns, 1, Len(bt.returns)) = bt.returns
    ELSE /\ bt'.portfolio_value = bt.portfolio_value
         /\ bt'.returns = bt.returns

\* C27: after a completed run over D days the return series has D entries
\* and the value series D + 1: the starting cash, then exactly one total per
\* simulated day in date order, whatever trades, skipped buys or empty
\* rebalances occurred.
C27_SeriesLengths == []SeriesShape /\ [][SeriesStep]_vars

\* A run completed with a trade and with a Rebalance day on which no
\* instrument had a row.
C27_Witness ==
    /\ bt.pc = "done"
    /\ Len(bt.returns) = NDays
    /\ Len(bt.portfolio_value) = NDays + 1
    /\ bt.trade_history # <<>>
    /\ \E d \in Days :
          d % rebalance_period = 0 /\ available_stocks(stock_data, d) = <<>>

\* The records of the ledger of b dated date with the given action.
RecordsOn(b, date, action) ==
    SelectSeq(b.trade_history,
              LAMBDA r : r.date = date /\ r.action = action)

\* In the ledger no buy record of a date comes before a sell record of that
\* date; when the allocation is about to be computed, every holding that
\* left the targets and has a row today has been sold, and nothing has been
\* bought today.
PhaseState ==
    /\ \A j, k \in 1..Len(bt.trade_history) :
          (j < k /\ bt.trade_history[j].date = bt.trade_history[k].date
                 /\ bt.trade_history[j].action = "buy")
              => bt.trade_history[k].action = "buy"
    /\ bt.pc = "alloc" =>
          /\ \A c \in bt.current_holdings \ Range(bt.selected_codes) :
                HasBar(stock_data, c, bt.i) =>
                    c \notin Held(bt.positions) /\ c \in SoldOn(bt, bt.i)
          /\ RecordsOn(bt, bt.i, "buy") = <<>>

\* The order of the steps of a day, and the cash through them: a pass of
\* the sell loop adds the value of the record it appends to cash; the
\* allocation divides the cash it finds and no sell follows it that day.
PhaseStep ==
    /\ bt.pc = "day" => bt'.pc \in {"first_buy", "sell", "value"}
    /\ bt.pc = "first_buy" => bt'.pc \in {"first_buy", "value"}
    /\ bt.pc = "sell" =>
          /\ bt'.pc \in {"sell", "alloc"}
          /\ RecordsOn(bt', bt.i, "buy") = <<>>
          /\ IF bt'.trade_history = bt.trade_history
             THEN bt'.cash = bt.cash
             ELSE /\ bt'.trade_history =
                        Append(bt.trade_history, Last(bt'.trade_history))
                  /\ Last(bt'.trade_history).action = "sell"
                  /\ bt'.cash = bt.cash + Last(bt'.trade_history).value
    /\ bt.pc = "alloc" =>
          /\ bt'.pc \in {"buy", "value"}
          /\ bt'.cash = bt.cash
          /\ bt'.trade_history = bt.trade_history
          /\ bt'.pc = "buy" =>
                bt'.per_stock_value * Cardinality(Range(bt'.todo)) <= bt.cash
    /\ bt.pc = "buy" => bt'.pc \in {"buy", "value"}
    /\ bt.pc \in {"alloc", "buy", "value", "first_buy"} =>
          RecordsOn(bt', bt.i, "sell") = RecordsOn(bt, bt.i, "sell")
    /\ bt.pc = "value" => bt'.pc \in {"day", "done", "error"}

\* C28: on a Rebalance day the steps run in the order selection, sell
\* phase, allocation phase, valuation: the sell records of the day precede
\* its buy records in the ledger and the allocation is computed only after
\* every sell of the day has been added to cash.
C28_PhaseOrder == []PhaseState /\ [][PhaseStep]_vars

\* A day with a sell followed by a buy has been valued.
C28_Witness ==
    /\ bt.pc = "day"
    /\ bt.i > 0
    /\ RecordsOn(bt, bt.i - 1, "sell") # <<>>
    /\ RecordsOn(bt, bt.i - 1, "buy") # <<>>

\* The step appends a record to the ledger.
Appends == Len(bt'.trade_history) = Len(bt.trade_history) + 1

\* The holdings before the rebalance are those the branch with holdings
\* remembers; through its sell loop, allocation and buy loop every one of
\* them that is also a target keeps its shares and gets no record; and no
\* step buys an instrument that is held.
KeptUntouched ==
    /\ (bt.pc = "day" /\ bt'.pc = "sell") =>
          bt'.current_holdings = Held(bt.positions)
    /\ bt.pc \in {"sell", "alloc", "buy"} =>
          \A c \in bt.current_holdings \cap Range(bt.selected_codes) :
              /\ c \in Held(bt.positions)
              /\ c \in Held(bt'.positions)
              /\ SharesOf(bt'.positions, c) = SharesOf(bt.positions, c)
              /\ Appends => Last(bt'.trade_history).code # c
    /\ (Appends /\ Last(bt'.trade_history).action = "buy") =>
          Last(bt'.trade_history).code \notin Held(bt.positions)
    /\ \A c \in Held(bt.positions) \cap Held(bt'.positions) :
          SharesOf(bt'.positions, c) = SharesOf(bt.positions, c)

\* C29: at a rebalance an instrument held before it and also in the new
\* target set is left untouched, its share count unchanged and no record
\* appended for it, and an instrument is never bought while it is held.
C29_KeptHoldings == [][KeptUntouched]_vars

\* A rebalance that bought an instrument and kept a holding that trades
\* today and is a target again.
C29_Witness ==
    /\ bt.pc = "value"
    /\ IsRebalanceDay(bt)
    /\ RecordsOn(bt, bt.i, "buy") # <<>>
    /\ \E c \in Held(bt.positions) \cap Range(bt.selected_codes) :
          /\ HasBar(stock_data, c, bt.i)
          /\ \A k \in 1..Len(bt.trade_history) :
                bt.trade_history[k].code = c => bt.trade_history[k].date < bt.i

\* Every future with success has been stored in both executions.
Loaded ==
    /\ \A c \in CodeSet :
          process_stock_data(stock_data, c) =>
              c \in Range(test_data) /\ c \in Range(test_data2)
    /\ test_data # <<>>

\* C30: the universe handed to the simulator has the same iteration order,
\* and with it the same start and end dates, for every order in which the
\* loader threads complete.
C30_LoadOrder ==
    Loaded =>
        /\ test_data = test_data2
        /\ start_date(stock_data, test_data) = start_date(stock_data, test_data2)
        /\ end_date(stock_data, test_data) = end_date(stock_data, test_data2)

\* C31: at every point of every run the number of instruments held is at
\* most top_n.
C31_AtMostTopN == Len(bt.positions) <= top_n

\* The days of the window up to the one the run is at.
DaysSoFar == {d \in Days : d <= bt.i}

\* C32: every held instrument has a row dated on or before the current
\* simulated day, so the valuation always finds a close and the lookup of an
\* earlier row for a held position never fails.
C32_HeldHasBar ==
    /\ \A k \in 1..Len(bt.positions) :
          \E d \in DaysSoFar : HasBar(stock_data, bt.positions[k].code, d)
    /\ bt.pc # "error"

\* A day was valued on which a holding had no row and an earlier row of the
\* window supplied its close.
C32_Witness ==
    /\ bt.pc = "day"
    /\ bt.i = NDays - 1
    /\ \E k \in 1..Len(bt.positions) :
          /\ ~HasBar(stock_data, bt.positions[k].code, bt.i - 1)
          /\ HasBar(stock_data, bt.positions[k].code, 0)
          /\ bt.portfolio_value[bt.i + 1] =
                bt.cash + PositionsValue(stock_data, bt.positions, bt.i - 1)

\* shares * price of a record, in money units: the shares are whole lots and
\* the price is per lot.
Gross(r) == (r.shares \div LotSize) * r.price

\* The starting cash after the first k records of the ledger: a buy takes
\* shares * price + commission, a sell gives shares * price - commission.
RECURSIVE CashAfter(_, _)
CashAfter(ledger, k) ==
    IF k = 0 THEN InitialCash * Scale
    ELSE IF ledger[k].action = "buy"
         THEN CashAfter(ledger, k - 1) - (Gross(ledger[k]) + ledger[k].commission)
         ELSE CashAfter(ledger, k - 1) + (Gross(ledger[k]) - ledger[k].commission)

\* C33: in a run on a fresh object, cash is the starting cash minus
\* shares * price + commission of every buy record plus
\* shares * price - commission of every sell record.
C33_CashFromLedger ==
    /\ \A k \in 1..Len(bt.trade_history) :
          bt.trade_history[k].shares % LotSize = 0
    /\ bt.cash = CashAfter(bt.trade_history, Len(bt.trade_history))

\* The end of a day of a run that has bought and sold.
C33_Witness ==
    /\ bt.pc \in {"day", "done"}
    /\ bt.i > 0
    /\ \E j, k \in 1..Len(bt.trade_history) :
          /\ bt.trade_history[j].action = "buy"
          /\ bt.trade_history[k].action = "sell"
          /\ bt.trade_history[k].commission > min_commission * Scale
    /\ bt.cash # InitialCash * Scale

\* The shares of the records of code with the given action, summed.
SharesTraded(ledger, code, action) ==
    SumSeq([k \in 1..Len(ledger) |->
        IF ledger[k].code = code /\ ledger[k].action = action
        THEN ledger[k].shares ELSE 0])

\* The share count held of code, 0 when it is not in positions.
HeldShares(code) ==
    IF code \in Held(bt.positions) THEN SharesOf(bt.positions, code) ELSE 0

\* C34: in a run on a fresh object the held share count of every instrument
\* is the shares of its buy records minus the shares of its sell records,
\* and every sell record has before it in the ledger a buy record of the
\* same instrument with a strictly earlier date and the same share count,
\* so the report finds a buy for every sell.
C34_SharesFromLedger ==
    /\ \A c \in CodeSet :
          HeldShares(c) = SharesTraded(bt.trade_history, c, "buy")
                          - SharesTraded(bt.trade_history, c, "sell")
    /\ \A k \in 1..Len(bt.trade_history) :
          bt.trade_history[k].action = "sell" =>
              /\ \E j \in 1..(k - 1) :
                    /\ bt.trade_history[j].action = "buy"
                    /\ bt.trade_history[j].code = bt.trade_history[k].code
                    /\ bt.trade_history[j].date < bt.trade_history[k].date
                    /\ bt.trade_history[j].shares = bt.trade_history[k].shares
              /\ buy_trades(bt.trade_history, bt.trade_history[k]) # {}

\* A completed run that sold one instrument and still holds another.
C34_Witness ==
    /\ bt.pc = "done"
    /\ \E k \in 1..Len(bt.trade_history) :
          /\ bt.trade_history[k].action = "sell"
          /\ bt.trade_history[k].code \notin Held(bt.positions)
    /\ \E c \in Held(bt.positions) : HeldShares(c) > LotSize

\* A call of run_backtest that enters its day loop starts from the initial
\* state: the starting cash, no position, the value series holding the
\* starting cash only, no return and no record.
ResetOnCall ==
    (bt'.calls = bt.calls + 1 /\ bt'.pc = "day") =>
        /\ bt'.cash = InitialCash * Scale
        /\ bt'.positions = <<>>
        /\ bt'.portfolio_value = <<InitialCash * Scale>>
        /\ bt'.returns = <<>>
        /\ bt'.trade_history = <<>>

\* The ledger at the end of a call holds the records of that call only: it
\* replays from the starting cash to the cash of the object.
LedgerOfThisCall ==
    bt.pc = "done" =>
        bt.cash = CashAfter(bt.trade_history, Len(bt.trade_history))

\* C35: every call of run_backtest starts from the initial state, the
\* ledger included, so a second call on the same object ends with the
\* ledger, value series and cash of a run on a fresh object.
C35_CallResets == [][ResetOnCall]_vars /\ []LedgerOfThisCall

\* At most one row per (code, date).
DatesUnique(rows) ==
    \A j, k \in 1..Len(rows) :
        (rows[j].code = rows[k].code /\ rows[j].date = rows[k].date) => j = k

\* C36: the store holds at most one bar per (code, date); saving the same
\* bars a second time leaves the stored bars unchanged; a save that fails
\* leaves the store as it was before the call.
C36_SaveIdempotent ==
    /\ DatesUnique(db.rows)
    /\ \A code \in SavedCodes, data \in Frames :
          LET once == save_stock_data(db, code, data)
              twice == save_stock_data(once, code, data)
          IN  /\ twice.rows = once.rows
              /\ once.failed => once.rows = db.rows
              /\ DatesUnique(once.rows)

\* A store filled by two saves of an instrument, the last save rolled back.
C36_Witness ==
    /\ db.saves = MaxSaves
    /\ db.failed
    /\ Len(get_stock_data(db.rows, "A")) = 2
    /\ db.call[1].code = "A"
    /\ Len(db.call[1].data) = 2
    /\ db.call[1].data[1].date > last_date(db.rows, "A")[1]

\* C37: after a save that returned without error, get_stock_data of the
\* code is ordered by date and has a bar for every date of the data saved,
\* also for the dates not later than the latest date stored before.
C37_SaveStoresAll ==
    (db.saves > 0 /\ ~db.failed) =>
        LET got == get_stock_data(db.rows, db.call[1].code)
            data == db.call[1].data
        IN  /\ \A k \in 1..Len(data) :
                  \E j \in 1..Len(got) : got[j].date = data[k].date
            /\ \A i, j \in 1..Len(got) : i < j => got[i].date < got[j].date

\* C38: the pre-trade total value computed on a Rebalance day is cash plus
\* shares * last available close dated on or before the day, for every held
\* instrument, those without a row on the day included.
C38_PreTradeTotal ==
    (bt.pc = "day" /\ IsRebalanceDay(bt)
                   /\ available_stocks(stock_data, bt.i) # <<>>) =>
        TotalValue(bt, stock_data) =
            bt.cash + SumSeq([k \in 1..Len(bt.positions) |->
                (bt.positions[k].shares \div LotSize) * Scale
                    * LastCloseUpTo(bt.positions[k].code, bt.i)])

====
